---- MODULE Spec2Model ----
(***************************************************************************)
(* Job lifecycle of the resume-optimiser API service                       *)
(* (src/crew/resume_optimiser/src/resume_optimiser/api.py) together with   *)
(* the collaborators its runner touches: the crew's output directory      *)
(* (crew.py), the object store (s3_utils.py) and the message queue.       *)
(*                                                                         *)
(* Scheduling.  Every request handler and run_optimization_task is an      *)
(* `async def` that contains no `await` (upload_resume has one, its        *)
(* file.read(), before its first write): once one of them starts it runs   *)
(* to its end on the single event loop before any other handler runs.      *)
(* The model keeps the statements of such a section as separate steps (so  *)
(* that the store's intermediate contents are states) and uses `loop` to   *)
(* record which coroutine holds the event loop; other coroutines are       *)
(* enabled only when nobody holds it.  Processes outside the server (the   *)
(* queue worker, an operator) are not bound by the event loop.             *)
(*                                                                         *)
(* Specifications.  Spec is the API server with its collaborators;         *)
(* FairSpec adds the scheduling of the runner; WorkerSpec follows the      *)
(* queue worker (services/worker/worker.py) statement by statement;        *)
(* S3Spec is upload_file_to_s3 (s3_utils.py) against a bucket; AccountSpec *)
(* is the Account class of engineering_team/output/accounts.py.            *)
(***************************************************************************)
EXTENDS Integers, FiniteSets, Sequences, TLC

\* ------------------------------------------------------------------ bounds
MaxJobs == 2        \* number of uuid4 job ids drawn in one run of the process
MaxFiles == 2       \* number of file names another process may put in a run directory
MaxTs == 1          \* number of distinct utcnow() second-resolution timestamps
MaxHash == 1        \* number of distinct resume contents (sha256 prefixes)
MaxLiveJobs == 1    \* number of jobs created in a run checked for liveness
MaxTx == 3          \* number of calls made on one Account

JobIds == 1..MaxJobs
ExtFiles == 1..MaxFiles
Timestamps == 1..MaxTs
FileIds == 1..MaxHash

\* Optional[T] is the set of at most one T.
None == {}
Some(x) == {x}

\* str(e) of the exceptions the collaborators raise: an exception built
\* without arguments has the empty string, any other a text.
ErrMsgs == {"", "boom"}
\* str(KeyError(job_id)) is the repr of the key: never empty.
KeyErrorMsg == "KeyError"
\* crew.py:61 FileNotFoundError(f"Resume file not found: {abs_path}")
NotFoundMsg == "Resume file not found"

\* The five task output files of the crew (crew.py:137-171).
CrewFiles == {"job_analysis.json", "resume_optimization.json",
              "company_research.json", "optimized_resume.md", "final_report.md"}

\* Directory names under <project_root>/output.  A job id is str(uuid4())
\* (36 characters, 8-4-4-4-12), a timestamp is strftime('%Y%m%dT%H%M%SZ')
\* (16 characters) and a content hash is 12 hex digits without the "run-"
\* prefix: names of different kinds are different strings.
RunDir(j) == [kind |-> "run-uuid", v |-> j]
TimeDir(t) == [kind |-> "run-ts", v |-> t]
HashDir(h) == [kind |-> "hash", v |-> h]

VARIABLES
    job_status,   \* api.py:49  dict job_id -> record
    pc,           \* per job id: position of the coroutine created for it
    args,         \* per job id: resume_path of its background task, while the task exists
    loop,         \* 0: event loop free; j: the coroutine of job j holds it
    frame,        \* locals of the coroutine that holds the event loop
    fs,           \* <project_root>/output: directory name -> set of file names
    knowledge,    \* <project_root>/knowledge/<file_id>: content of each directory
    queue,        \* messages published to the Service Bus queue and not yet completed
    env,          \* process environment: which integrations are configured
    kickoff_calls, \* per job id: how often crew.kickoff was invoked for it (api.py:311)
    resp          \* the HTTP response produced by the step just taken

\* The queue worker (services/worker/worker.py), a process of its own.
VARIABLES
    wpc,          \* position of the worker's receive loop
    wmsg,         \* the message being processed (None between messages)
    results,      \* process_message's local `results`: the keys it holds
    written,      \* job id -> keys of the bento_results.json written for it
    acked         \* messages completed with receiver.complete_message

workerVars == <<wpc, wmsg, results, written, acked>>

\* The Artifact Publisher (s3_utils.py) seen on its own.
VARIABLES
    auto_create,  \* S3_AUTO_CREATE_BUCKET is one of "1", "true", "yes"
    bucket,       \* the destination bucket: absent, present, or held in another region
    objects,      \* keys stored in the bucket
    s3_calls,     \* S3 API calls made by the last upload_file_to_s3, in order
    s3_result     \* what the last upload_file_to_s3 returned or raised

s3Vars == <<auto_create, bucket, objects, s3_calls, s3_result>>

\* An Account (src/crew/engineering_team/output/accounts.py).
VARIABLES
    balance,         \* self.balance, in thousandths of a dollar
    portfolio,       \* self.portfolio: symbol -> quantity
    transactions,    \* self.transactions
    initial_deposit, \* the constructor's argument (not kept by the object)
    raised           \* the exception the last call raised (None: it returned)

acctVars == <<balance, portfolio, transactions, initial_deposit, raised>>

\* The programs besides the API server.
aux == <<workerVars, s3Vars, acctVars>>

vars == <<job_status, pc, args, loop, frame, fs, knowledge, queue, env, kickoff_calls, resp, aux>>

\* ------------------------------------------------------------ store helpers
HasJob(j) == j \in DOMAIN job_status

\* api.py:150-155 and 198-203: the record both create endpoints store.
NewRecordMutRunning(progress) ==
    [status |-> "running", progress |-> progress, result |-> None, error |-> None]
NewRecord(progress) ==
    [status |-> "queued", progress |-> progress, result |-> None, error |-> None]

\* job_status[job_id] = record
Put(j, rec) == [k \in DOMAIN job_status \cup {j} |-> IF k = j THEN rec ELSE job_status[k]]
\* del job_status[job_id]
DelMutAll(j) == [k \in {} |-> job_status[k]]
Del(j) == [k \in DOMAIN job_status \ {j} |-> job_status[k]]

\* uuid.uuid4(): a value never returned before in this process.
Unissued == {j \in JobIds : pc[j] = "unused"}
NewIdMutReuse == CHOOSE j \in JobIds : \A k \in JobIds : j <= k
NewId == CHOOSE j \in Unissued : \A k \in Unissued : j <= k

\* exc, crew_instance.output_subdir, result, output_files, s3_uploads and
\* the files the upload loop has still to visit; `stored` is the set of
\* files the uploads of this run have put into the bucket; message_body
\* is the local of create_job_endpoint (api.py:209-213).
NoFrame == [exc |-> None, crew_dir |-> None, result |-> None,
            output_files |-> {}, s3_uploads |-> {}, todo |-> {}, stored |-> {},
            message_body |-> None]
NoResp == [op |-> "none", id |-> 0, code |-> 0, status |-> "", body |-> [k \in {} |-> 0]]

\* The event loop runs a handler only when no coroutine is inside a section
\* without suspension point.
LoopFreeMutPreempt == TRUE
LoopFree == loop = 0

\* worker.py:59-62: the worker has opened its receiver.
WorkerStart ==
    /\ wpc = "receive" /\ wmsg = None /\ results = {}
    /\ written = [j \in {} |-> {}] /\ acked = {}

\* The publisher before its first call, with the flag and the bucket as
\* the deployment has them.
S3Start(flag, b) ==
    /\ auto_create = flag /\ bucket = b
    /\ objects = {} /\ s3_calls = <<>> /\ s3_result = "none"

\* accounts.py:2-12: Account(user_id, initial_deposit).  user_id is stored
\* and never read.
Account_init(deposit0) ==
    /\ balance = deposit0 /\ initial_deposit = deposit0
    /\ portfolio = [y \in {} |-> 0] /\ transactions = <<>> /\ raised = None

\* The API server after start-up; the other programs are in their own
\* start states and take steps only in the specifications written for them.
Init ==
    /\ job_status = [k \in {} |-> 0]
    /\ pc = [j \in JobIds |-> "unused"]
    /\ args = [j \in JobIds |-> None]
    /\ loop = 0
    /\ frame = NoFrame
    /\ fs = [d \in {} |-> {}]
    /\ knowledge = [h \in FileIds |-> "absent"]
    /\ queue = {}
    /\ env \in [s3_bucket : BOOLEAN, service_bus : BOOLEAN]
    /\ kickoff_calls = [j \in JobIds |-> 0]
    /\ WorkerStart
    /\ S3Start(FALSE, "present")
    /\ Account_init(0)
    /\ resp = NoResp


\* ------------------------------------------------------- request handlers
Response(op, j, code, status, shown) ==
    [op |-> op, id |-> j, code |-> code, status |-> status,
     body |-> [k \in shown |-> job_status[k]]]

\* POST /upload-resume (api.py:94-135).  An unsupported content type raises
\* HTTPException(400) inside the try block, which `except Exception` turns
\* into a 500.  The file is stored as resume<suffix of the client's file
\* name>; `resume_ext` says whether that suffix is one start_optimization
\* looks for (.pdf, .docx, .txt).
upload_resume(h, type_ok, resume_ext) ==
    /\ LoopFree
    /\ IF type_ok
       THEN /\ knowledge' = [knowledge EXCEPT ![h] = IF resume_ext THEN "resume" ELSE "other"]
            /\ resp' = Response("upload", 0, 200, "", {})
       ELSE /\ knowledge' = knowledge
            /\ resp' = Response("upload", 0, 500, "", {})
    /\ UNCHANGED <<job_status, pc, args, loop, frame, fs, queue, env, kickoff_calls, aux>>

\* api.py:171-177: background_tasks.add_task(run_optimization_task, ...).
\* The task is only recorded; it is run after the response has been sent.
add_taskMutInline(j, resume_path) ==
    /\ pc' = [pc EXCEPT ![j] = "r298"]
    /\ args' = [args EXCEPT ![j] = resume_path]
add_task(j, resume_path) ==
    /\ pc' = [pc EXCEPT ![j] = "scheduled"]
    /\ args' = [args EXCEPT ![j] = resume_path]

\* POST /optimize (api.py:137-186).  job_url says whether the required form
\* field job_url = Form(...) is in the request: without it the framework
\* answers 422 and the handler is not entered.  file_id is None or Some(h).
start_optimization(job_url, file_id) ==
    /\ LoopFree
    /\ IF ~job_url
       THEN /\ resp' = Response("optimize", 0, 422, "", {})
            /\ UNCHANGED <<job_status, pc, args>>
       ELSE /\ Unissued # {}
            /\ LET j == NewId
                   \* api.py:159-168: the directory is searched only if it exists
                   found == {h \in file_id : knowledge[h] = "resume"}
                   missing == \E h \in file_id : knowledge[h] = "other"
               IN  /\ job_status' = Put(j, NewRecord("Starting optimization..."))
                   /\ IF missing
                      THEN \* HTTPException(404) caught at 185: 500, nothing scheduled
                           /\ pc' = [pc EXCEPT ![j] = "unscheduled"]
                           /\ args' = args
                           /\ resp' = Response("optimize", j, 500, "", {})
                      ELSE /\ add_task(j, found)
                           /\ resp' = Response("optimize", j, 200, "queued", {})
    /\ UNCHANGED <<loop, frame, fs, knowledge, queue, env, kickoff_calls, aux>>

\* CreateJobRequest (api.py:69-71): both fields are optional; the model
\* keeps whether each is given.
Payloads == [resume_text : BOOLEAN, job_description : BOOLEAN]

\* POST /v1/jobs (api.py:189-213): the record is stored, then the handler
\* either returns (queue not configured) or builds the message and goes on
\* to publish.
create_job_endpoint(payload) ==
    /\ LoopFree
    /\ Unissued # {}
    /\ LET j == NewId
       IN  /\ job_status' = Put(j, NewRecord("Queued"))
           /\ IF ~env.service_bus
              THEN /\ pc' = [pc EXCEPT ![j] = "tracked"]
                   /\ loop' = loop
                   /\ resp' = Response("v1jobs", j, 202, "queued", {})
                   /\ frame' = frame
              ELSE /\ pc' = [pc EXCEPT ![j] = "v216"]
                   /\ loop' = j
                   /\ resp' = NoResp
                   /\ frame' = [frame EXCEPT !.message_body =
                                    Some([job_id |-> j,
                                          resume_text |-> payload.resume_text,
                                          job_description |-> payload.job_description])]
    /\ UNCHANGED <<args, fs, knowledge, queue, env, kickoff_calls, aux>>

\* api.py:215-220: sender.send_messages returns or raises.
publish_ok(j) ==
    /\ loop = j /\ pc[j] = "v216"
    /\ queue' = queue \cup frame.message_body
    /\ pc' = [pc EXCEPT ![j] = "tracked"]
    /\ loop' = 0
    /\ frame' = NoFrame
    /\ resp' = Response("v1jobs", j, 202, "queued", {})
    /\ UNCHANGED <<job_status, args, fs, knowledge, env, kickoff_calls, aux>>

publish_raises(j, e) ==
    /\ loop = j /\ pc[j] = "v216"
    /\ frame' = [frame EXCEPT !.exc = Some(e)]
    /\ pc' = [pc EXCEPT ![j] = "v221"]
    /\ resp' = NoResp
    /\ UNCHANGED <<job_status, args, loop, fs, knowledge, queue, env, kickoff_calls, aux>>

\* api.py:221
publish_failed_status(j) ==
    /\ loop = j /\ pc[j] = "v221"
    /\ job_status' = [job_status EXCEPT ![j].status = "failed"]
    /\ pc' = [pc EXCEPT ![j] = "v222"]
    /\ resp' = NoResp
    /\ UNCHANGED <<args, loop, frame, fs, knowledge, queue, env, kickoff_calls, aux>>

\* api.py:222-223: CreateJobResponse(job_id=job_id) carries the default "queued".
publish_failed_error(j) ==
    /\ loop = j /\ pc[j] = "v222"
    /\ job_status' = [job_status EXCEPT ![j].error = frame.exc]
    /\ pc' = [pc EXCEPT ![j] = "tracked"]
    /\ loop' = 0
    /\ frame' = NoFrame
    /\ resp' = Response("v1jobs", j, 202, "queued", {})
    /\ UNCHANGED <<args, fs, knowledge, queue, env, kickoff_calls, aux>>

\* GET /job/{job_id} (api.py:225-238)
get_job_status(j) ==
    /\ LoopFree
    /\ resp' = IF HasJob(j) THEN Response("get", j, 200, job_status[j].status, {j})
                            ELSE Response("get", j, 404, "", {})
    /\ UNCHANGED <<job_status, pc, args, loop, frame, fs, knowledge, queue, env, kickoff_calls, aux>>

\* GET /jobs (api.py:240-252)
list_jobs ==
    /\ LoopFree
    /\ resp' = Response("list", 0, 200, "", DOMAIN job_status)
    /\ UNCHANGED <<job_status, pc, args, loop, frame, fs, knowledge, queue, env, kickoff_calls, aux>>

\* DELETE /job/{job_id} (api.py:254-268).  shutil.rmtree either removes the
\* directory or raises (the handler then answers 500, the record is gone).
delete_job(j, rmtree_ok) ==
    /\ LoopFree
    /\ IF ~HasJob(j)
       THEN /\ resp' = Response("delete", j, 404, "", {})
            /\ UNCHANGED <<job_status, fs>>
       ELSE /\ job_status' = Del(j)
            /\ IF RunDir(j) \in DOMAIN fs /\ rmtree_ok
               THEN fs' = [d \in DOMAIN fs \ {RunDir(j)} |-> fs[d]]
               ELSE fs' = fs
            /\ resp' = [op |-> "delete", id |-> j,
                        code |-> IF RunDir(j) \in DOMAIN fs /\ ~rmtree_ok THEN 500 ELSE 200,
                        status |-> "", body |-> [k \in {} |-> 0]]
    /\ UNCHANGED <<pc, args, loop, frame, knowledge, queue, env, kickoff_calls, aux>>

\* api.py:281-284: (output / run-<job_id> / filename).exists()
FileExists(j, f) == RunDir(j) \in DOMAIN fs /\ f \in fs[RunDir(j)]

\* api.py:273-291: the checks of download_result in the order of the code.
DownloadCodeMutFileFirst(j, f) ==
    IF ~HasJob(j) THEN 404
    ELSE IF ~FileExists(j, f) THEN 404
    ELSE IF job_status[j].status # "completed" THEN 400
    ELSE 200
DownloadCode(j, f) ==
    IF ~HasJob(j) THEN 404
    ELSE IF job_status[j].status # "completed" THEN 400
    ELSE IF ~FileExists(j, f) THEN 404
    ELSE 200

\* GET /download/{job_id}/{filename} (api.py:270-291).  The path parameter
\* holds no "/": only files directly in the run directory can be named.
download_result(j, f) ==
    /\ LoopFree
    /\ resp' = [op |-> "download", id |-> j, code |-> DownloadCode(j, f),
                status |-> "", body |-> [k \in {} |-> 0], file |-> f]
    /\ UNCHANGED <<job_status, pc, args, loop, frame, fs, knowledge, queue, env, kickoff_calls, aux>>

\* A process outside the server (the queue worker, worker.py:41-44, or an
\* operator) writes a file into the run directory of a job id it knows.
\* Such a write is not bound by the event loop.  Of all the moments it can
\* happen, the model generates the one that matters to the runner: just
\* before the runner lists the directory (api.py:323).  A write earlier in
\* the runner's section commutes with the runner's steps up to there.
OutputDirWrite(j, f) ==
    /\ loop = j /\ pc[j] = "r320"
    /\ fs' = [d \in DOMAIN fs \cup {RunDir(j)} |->
                 IF d = RunDir(j)
                 THEN (IF d \in DOMAIN fs THEN fs[d] ELSE {}) \cup {f}
                 ELSE fs[d]]
    /\ f \notin (IF RunDir(j) \in DOMAIN fs THEN fs[RunDir(j)] ELSE {})
    /\ resp' = NoResp
    /\ UNCHANGED <<job_status, pc, args, loop, frame, knowledge, queue, env, kickoff_calls, aux>>


\* worker.py:43: the one file name the worker writes, bento_results.json,
\* as one of the names another process may put into a run directory.
bento_results == CHOOSE f \in ExtFiles : \A g \in ExtFiles : f <= g

\* worker.py:14-45: whatever the scoring service answers (an error is
\* caught at 38 and written into the file), the results file is written to
\* /workspace/output/run-<job_id>, which is the server's output directory
\* when the project is deployed at /workspace.
process_message(message_body) ==
    LET d == RunDir(message_body.job_id)
    IN  [x \in DOMAIN fs \cup {d} |->
            IF x = d THEN (IF x \in DOMAIN fs THEN fs[x] ELSE {}) \cup {bento_results}
                     ELSE fs[x]]

\* worker.py:59-69: one pass of the receive loop for one message: process
\* it, then complete it.  The worker is its own process; its step touches
\* the queue and the run directory of a job that has no coroutine in the
\* server, so it commutes with the steps of a coroutine that holds the event
\* loop and is generated between such sections only.
worker_mainMutWriteBack(msg) ==
    /\ loop = 0
    /\ msg \in queue
    /\ fs' = process_message(msg)
    /\ queue' = queue \ {msg}
    /\ job_status' = [k \in DOMAIN job_status |->
                          IF k = msg.job_id
                          THEN [job_status[k] EXCEPT !.status = "completed"]
                          ELSE job_status[k]]
    /\ resp' = NoResp
    /\ UNCHANGED <<pc, args, loop, frame, knowledge, env, kickoff_calls, aux>>
worker_main(msg) ==
    /\ loop = 0
    /\ msg \in queue
    /\ fs' = process_message(msg)
    /\ queue' = queue \ {msg}
    /\ resp' = NoResp
    /\ UNCHANGED <<job_status, pc, args, loop, frame, knowledge, env, kickoff_calls, aux>>


\* --------------------------------------- run_optimization_task (api.py:293-360)
\* job_status[job_id][field] = value inside the try block: a missing key
\* raises KeyError, which the handler at 357 catches.
AssignMutCreate(j, field, value, next) ==
    /\ job_status' = Put(j, [(IF HasJob(j) THEN job_status[j] ELSE NewRecord(""))
                                 EXCEPT ![field] = value])
    /\ pc' = [pc EXCEPT ![j] = next]
    /\ frame' = frame
Assign(j, field, value, next) ==
    IF HasJob(j)
    THEN /\ job_status' = [job_status EXCEPT ![j][field] = value]
         /\ pc' = [pc EXCEPT ![j] = next]
         /\ frame' = frame
    ELSE /\ job_status' = job_status
         /\ pc' = [pc EXCEPT ![j] = "x358"]
         /\ frame' = [frame EXCEPT !.exc = Some(KeyErrorMsg)]

RaiseMutUnhandled(j, e) ==
    /\ pc' = [pc EXCEPT ![j] = "escaped"]
    /\ frame' = frame
Raise(j, e) ==
    /\ pc' = [pc EXCEPT ![j] = "x358"]
    /\ frame' = [frame EXCEPT !.exc = Some(e)]

\* api.py:297: the background task starts once the response has been sent.
run_start(j) ==
    /\ LoopFree
    /\ pc[j] = "scheduled"
    /\ loop' = j
    /\ Assign(j, "status", "running", "r298")
    /\ resp' = NoResp
    /\ UNCHANGED <<args, fs, knowledge, queue, env, kickoff_calls, aux>>

\* api.py:298-301
run_progress_init(j) ==
    /\ loop = j /\ pc[j] = "r298"
    /\ Assign(j, "progress", "Initializing CrewAI agents...", "r304")
    /\ resp' = NoResp
    /\ UNCHANGED <<args, loop, fs, knowledge, queue, env, kickoff_calls, aux>>

\* crew.py:83-85 and 75-81: the directory the crew's tasks write to.
OutputSubdir(j, resume_path, t) ==
    IF resume_path = None THEN TimeDir(t) ELSE HashDir(CHOOSE h \in resume_path : TRUE)

\* os.makedirs(path, exist_ok=True)
Makedirs(d) == [x \in DOMAIN fs \cup {d} |-> IF x \in DOMAIN fs THEN fs[x] ELSE {}]

\* api.py:304-305, crew.py:33-70: ResumeCrew().setup(...) at utcnow() = t.
run_setup(j, t) ==
    /\ loop = j /\ pc[j] = "r304"
    /\ IF \E h \in args[j] : knowledge[h] # "resume"
       THEN \* crew.py:61: the resume file is gone
            /\ Raise(j, NotFoundMsg)
            /\ fs' = fs
       ELSE /\ pc' = [pc EXCEPT ![j] = "r308"]
            /\ frame' = [frame EXCEPT !.crew_dir = Some(OutputSubdir(j, args[j], t))]
            /\ fs' = Makedirs(OutputSubdir(j, args[j], t))
    /\ resp' = NoResp
    /\ UNCHANGED <<job_status, args, loop, knowledge, queue, env, kickoff_calls, aux>>

\* The constructor, the knowledge source or makedirs raises.
run_setup_raises(j, e) ==
    /\ loop = j /\ pc[j] = "r304"
    /\ Raise(j, e)
    /\ resp' = NoResp
    /\ UNCHANGED <<job_status, args, loop, fs, knowledge, queue, env, kickoff_calls, aux>>

\* api.py:308
run_progress_running(j) ==
    /\ loop = j /\ pc[j] = "r308"
    /\ Assign(j, "progress", "Running optimization agents...", "r311")
    /\ resp' = NoResp
    /\ UNCHANGED <<args, loop, fs, knowledge, queue, env, kickoff_calls, aux>>

\* What kickoff returns, as far as the runner uses it: str(result) either
\* returns (api.py:354) or raises an exception whose text is `text`.
Results == {[str_ok |-> TRUE, text |-> "raw"]} \cup {[str_ok |-> FALSE, text |-> e] : e \in ErrMsgs}

\* api.py:311-314: kickoff returns; every task has written its output_file
\* (crew.py:87-90: under output_subdir).
run_kickoff_returns(j, r) ==
    /\ loop = j /\ pc[j] = "r311"
    /\ LET d == CHOOSE x \in frame.crew_dir : TRUE
       IN  fs' = [x \in DOMAIN fs \cup {d} |->
                     IF x = d THEN (IF x \in DOMAIN fs THEN fs[x] ELSE {}) \cup CrewFiles
                              ELSE fs[x]]
    /\ frame' = [frame EXCEPT !.result = Some(r)]
    /\ pc' = [pc EXCEPT ![j] = "r317"]
    /\ resp' = NoResp
    /\ UNCHANGED <<job_status, args, loop, knowledge, queue, env, aux>>
    /\ kickoff_calls' = [kickoff_calls EXCEPT ![j] = @ + 1]

run_kickoff_raisesMutRetry(j, e) ==
    /\ loop = j /\ pc[j] = "r311"
    /\ kickoff_calls' = [kickoff_calls EXCEPT ![j] = @ + 1]
    /\ resp' = NoResp
    /\ UNCHANGED <<job_status, pc, args, loop, frame, fs, knowledge, queue, env, aux>>
run_kickoff_raises(j, e) ==
    /\ loop = j /\ pc[j] = "r311"
    /\ Raise(j, e)
    /\ resp' = NoResp
    /\ UNCHANGED <<job_status, args, loop, fs, knowledge, queue, env, aux>>
    /\ kickoff_calls' = [kickoff_calls EXCEPT ![j] = @ + 1]

\* api.py:317
run_progress_processing(j) ==
    /\ loop = j /\ pc[j] = "r317"
    /\ Assign(j, "progress", "Processing results...", "r320")
    /\ resp' = NoResp
    /\ UNCHANGED <<args, loop, fs, knowledge, queue, env, kickoff_calls, aux>>

\* api.py:320-326: the files of <project_root>/output/run-<job_id>.
Collected(j) == IF RunDir(j) \in DOMAIN fs THEN fs[RunDir(j)] ELSE {}

\* api.py:320-331: collect, then decide whether anything is uploaded.
run_collect(j) ==
    /\ loop = j /\ pc[j] = "r320"
    /\ frame' = [frame EXCEPT !.output_files = Collected(j),
                              !.todo = IF env.s3_bucket THEN Collected(j) ELSE {}]
    /\ pc' = [pc EXCEPT ![j] = IF env.s3_bucket /\ Collected(j) # {} THEN "r333" ELSE "r349"]
    /\ resp' = NoResp
    /\ UNCHANGED <<job_status, args, loop, fs, knowledge, queue, env, kickoff_calls, aux>>

\* api.py:323-326: exists(), glob() or is_file() raises (an OSError).
run_collect_raises(j, e) ==
    /\ loop = j /\ pc[j] = "r320"
    /\ Raise(j, e)
    /\ resp' = NoResp
    /\ UNCHANGED <<job_status, args, loop, fs, knowledge, queue, env, kickoff_calls, aux>>

\* api.py:344 and 345-346: what one pass of the loop records for a file.
UploadedMutAlways(uploads, f, ok) == uploads \cup {f}
Uploaded(uploads, f, ok) == IF ok THEN uploads \cup {f} ELSE uploads

\* api.py:333-346: one pass of the upload loop; upload_file_to_s3 returns
\* the URL (ok) or raises, which is caught and printed.
run_upload(j, f, ok) ==
    /\ loop = j /\ pc[j] = "r333"
    /\ f \in frame.todo
    /\ frame' = [frame EXCEPT !.s3_uploads = Uploaded(frame.s3_uploads, f, ok),
                              !.stored = IF ok THEN frame.stored \cup {f} ELSE frame.stored,
                              !.todo = frame.todo \ {f}]
    /\ pc' = [pc EXCEPT ![j] = IF frame.todo = {f} THEN "r349" ELSE "r333"]
    /\ resp' = NoResp
    /\ UNCHANGED <<job_status, args, loop, fs, knowledge, queue, env, kickoff_calls, aux>>

\* api.py:349
run_status_completed(j) ==
    /\ loop = j /\ pc[j] = "r349"
    /\ Assign(j, "status", "completed", "r350")
    /\ resp' = NoResp
    /\ UNCHANGED <<args, loop, fs, knowledge, queue, env, kickoff_calls, aux>>

\* api.py:350
run_progress_completed(j) ==
    /\ loop = j /\ pc[j] = "r350"
    /\ Assign(j, "progress", "Optimization completed successfully", "r351")
    /\ resp' = NoResp
    /\ UNCHANGED <<args, loop, fs, knowledge, queue, env, kickoff_calls, aux>>

\* api.py:351-355: the payload; name -> path and name -> URL are kept as
\* the functions they are.
Payload(j) ==
    [output_files |-> [f \in frame.output_files |-> <<RunDir(j), f>>],
     s3_uploads |-> [f \in frame.s3_uploads |-> <<"s3", j, f>>],
     raw_result |-> (CHOOSE x \in frame.result : TRUE).text]

\* api.py:351: job_status[job_id]["result"] = {...}
StoreResultMutLost(j) == job_status
StoreResult(j) == [job_status EXCEPT ![j].result = Some(Payload(j))]

\* api.py:351-355: str(result) is evaluated before the assignment.
run_result(j) ==
    /\ loop = j /\ pc[j] = "r351"
    /\ LET r == CHOOSE x \in frame.result : TRUE
       IN  IF r.str_ok
           THEN /\ job_status' = StoreResult(j)
                /\ pc' = [pc EXCEPT ![j] = "returned"]
                /\ frame' = NoFrame
                /\ loop' = 0
           ELSE /\ Raise(j, r.text)
                /\ UNCHANGED <<job_status, loop>>
    /\ args' = [args EXCEPT ![j] = IF pc'[j] = "returned" THEN None ELSE @]
    /\ resp' = NoResp
    /\ UNCHANGED <<fs, knowledge, queue, env, kickoff_calls, aux>>

\* An assignment inside the except block (api.py:358-360): a KeyError there
\* leaves the coroutine.
HandlerAssignMutSkip(j, field, value, next) ==
    /\ job_status' = job_status
    /\ pc' = [pc EXCEPT ![j] = IF HasJob(j) THEN next ELSE "escaped"]
HandlerAssign(j, field, value, next) ==
    IF HasJob(j)
    THEN /\ job_status' = [job_status EXCEPT ![j][field] = value]
         /\ pc' = [pc EXCEPT ![j] = next]
    ELSE /\ job_status' = job_status
         /\ pc' = [pc EXCEPT ![j] = "escaped"]

\* api.py:358
run_except_status(j) ==
    /\ loop = j /\ pc[j] = "x358"
    /\ HandlerAssign(j, "status", "failed", "x359")
    /\ loop' = IF HasJob(j) THEN j ELSE 0
    /\ frame' = IF HasJob(j) THEN frame ELSE NoFrame
    /\ args' = [args EXCEPT ![j] = IF HasJob(j) THEN @ ELSE None]
    /\ resp' = NoResp
    /\ UNCHANGED <<fs, knowledge, queue, env, kickoff_calls, aux>>

\* api.py:359
run_except_error(j) ==
    /\ loop = j /\ pc[j] = "x359"
    /\ HandlerAssign(j, "error", frame.exc, "x360")
    /\ resp' = NoResp
    /\ UNCHANGED <<args, loop, frame, fs, knowledge, queue, env, kickoff_calls, aux>>

\* api.py:360
FailedProgress(e) == "Optimization failed: " \o e

run_except_progress(j) ==
    /\ loop = j /\ pc[j] = "x360"
    /\ HandlerAssign(j, "progress", FailedProgress(CHOOSE e \in frame.exc : TRUE), "handled")
    /\ loop' = 0
    /\ frame' = NoFrame
    /\ args' = [args EXCEPT ![j] = None]
    /\ resp' = NoResp
    /\ UNCHANGED <<fs, knowledge, queue, env, kickoff_calls, aux>>

\* ---------------------------------------------------------- specification
Next ==
    \/ \E h \in FileIds, type_ok \in BOOLEAN, resume_ext \in BOOLEAN :
           upload_resume(h, type_ok, resume_ext)
    \/ \E job_url \in BOOLEAN, file_id \in {None} \cup {Some(h) : h \in FileIds} :
           start_optimization(job_url, file_id)
    \/ \E payload \in Payloads : create_job_endpoint(payload)
    \/ \E j \in JobIds : publish_ok(j)
    \/ \E j \in JobIds, e \in ErrMsgs : publish_raises(j, e)
    \/ \E j \in JobIds : publish_failed_status(j)
    \/ \E j \in JobIds : publish_failed_error(j)
    \/ \E j \in JobIds : get_job_status(j)
    \/ list_jobs
    \/ \E j \in JobIds, rmtree_ok \in BOOLEAN : delete_job(j, rmtree_ok)
    \/ \E j \in JobIds, f \in ExtFiles : download_result(j, f)
    \/ \E j \in JobIds, f \in ExtFiles : OutputDirWrite(j, f)
    \/ \E msg \in queue : worker_main(msg)
    \/ \E j \in JobIds : run_start(j)
    \/ \E j \in JobIds : run_progress_init(j)
    \/ \E j \in JobIds, t \in Timestamps : run_setup(j, t)
    \/ \E j \in JobIds, e \in ErrMsgs : run_setup_raises(j, e)
    \/ \E j \in JobIds : run_progress_running(j)
    \/ \E j \in JobIds, r \in Results : run_kickoff_returns(j, r)
    \/ \E j \in JobIds, e \in ErrMsgs : run_kickoff_raises(j, e)
    \/ \E j \in JobIds : run_progress_processing(j)
    \/ \E j \in JobIds : run_collect(j)
    \/ \E j \in JobIds, e \in ErrMsgs : run_collect_raises(j, e)
    \/ \E j \in JobIds, f \in ExtFiles, ok \in BOOLEAN : run_upload(j, f, ok)
    \/ \E j \in JobIds : run_status_completed(j)
    \/ \E j \in JobIds : run_progress_completed(j)
    \/ \E j \in JobIds : run_result(j)
    \/ \E j \in JobIds : run_except_status(j)
    \/ \E j \in JobIds : run_except_error(j)
    \/ \E j \in JobIds : run_except_progress(j)

Spec == Init /\ [][Next]_vars

\* One step of the coroutine run_optimization_task(job_id = j, ...).
RunnerStep(j) ==
    \/ run_start(j)
    \/ run_progress_init(j)
    \/ \E t \in Timestamps : run_setup(j, t)
    \/ \E e \in ErrMsgs : run_setup_raises(j, e)
    \/ run_progress_running(j)
    \/ \E r \in Results : run_kickoff_returns(j, r)
    \/ \E e \in ErrMsgs : run_kickoff_raises(j, e)
    \/ run_progress_processing(j)
    \/ run_collect(j)
    \/ \E e \in ErrMsgs : run_collect_raises(j, e)
    \/ \E f \in ExtFiles, ok \in BOOLEAN : run_upload(j, f, ok)
    \/ run_status_completed(j)
    \/ run_progress_completed(j)
    \/ run_result(j)
    \/ run_except_status(j)
    \/ run_except_error(j)
    \/ run_except_progress(j)

\* The same operations as Next, with the number of jobs created in one run
\* capped by MaxLiveJobs.
JobsIssued == Cardinality({j \in JobIds : pc[j] # "unused"})

LiveNext ==
    \/ \E h \in FileIds, type_ok \in BOOLEAN, resume_ext \in BOOLEAN :
           upload_resume(h, type_ok, resume_ext)
    \/ /\ JobsIssued < MaxLiveJobs
       /\ \E job_url \in BOOLEAN, file_id \in {None} \cup {Some(h) : h \in FileIds} :
              start_optimization(job_url, file_id)
    \/ /\ JobsIssued < MaxLiveJobs
       /\ \E payload \in Payloads : create_job_endpoint(payload)
    \/ \E j \in JobIds : publish_ok(j)
    \/ \E j \in JobIds, e \in ErrMsgs : publish_raises(j, e)
    \/ \E j \in JobIds : publish_failed_status(j)
    \/ \E j \in JobIds : publish_failed_error(j)
    \/ \E j \in JobIds : get_job_status(j)
    \/ list_jobs
    \/ \E j \in JobIds, rmtree_ok \in BOOLEAN : delete_job(j, rmtree_ok)
    \/ \E j \in JobIds, f \in ExtFiles : download_result(j, f)
    \/ \E j \in JobIds, f \in ExtFiles : OutputDirWrite(j, f)
    \/ \E msg \in queue : worker_main(msg)
    \/ \E j \in JobIds : RunnerStep(j)

\* The event loop runs every task it has been given, and a coroutine that
\* holds the loop goes on to its next statement; every call it makes
\* (setup, kickoff, the directory listing, each upload) returns or raises.
FairSpec == Init /\ [][LiveNext]_vars /\ \A j \in JobIds : WF_vars(RunnerStep(j))

\* ------------------------------------------- the queue worker, step by step
\* worker.py:16-17, 24-37: the calls process_message makes to the scoring
\* service, in order, as the keys their answers are stored under.  A payload
\* field counts as given when it is not blank.
Calls(msg) ==
    (IF msg.resume_text THEN <<"parsed", "skills">> ELSE <<>>)
        \o (IF msg.resume_text \/ msg.job_description THEN <<"score">> ELSE <<>>)

\* worker.py:63-68: the receive loop takes a message; json.loads of a
\* message the API published returns its dict.
receive_messages(msg) ==
    /\ wpc = "receive"
    /\ msg \in queue
    /\ wmsg' = Some(msg)
    /\ results' = {}
    /\ wpc' = "w22"
    /\ UNCHANGED <<written, acked, s3Vars, acctVars>>
    /\ UNCHANGED <<job_status, pc, args, loop, frame, fs, knowledge, queue, env, kickoff_calls, resp>>

\* worker.py:21-39: the first `done` calls return and, unless that was all
\* of them, the next one raises (or, with client_ok false, httpx.Client
\* itself raises); the exception is caught and becomes the entry "error".
process_message_scoring(client_ok, done) ==
    /\ wpc = "w22"
    /\ LET msg == CHOOSE m \in wmsg : TRUE
           calls == Calls(msg)
       IN  /\ done \in 0..Len(calls)
           /\ results' = IF ~client_ok THEN {"error"}
                          ELSE {calls[i] : i \in 1..done}
                                   \cup (IF done < Len(calls) THEN {"error"} ELSE {})
    /\ wpc' = "w41"
    /\ UNCHANGED <<wmsg, written, acked, s3Vars, acctVars>>
    /\ UNCHANGED <<job_status, pc, args, loop, frame, fs, knowledge, queue, env, kickoff_calls, resp>>


\* worker.py:41-45: mkdir and write_text; an OSError of either leaves
\* process_message and main (nothing catches it).
process_message_writeMutSwallow(outcome) ==
    /\ wpc = "w41"
    /\ wpc' = "w69"
    /\ UNCHANGED <<fs, written>>
    /\ UNCHANGED <<wmsg, results, acked, s3Vars, acctVars>>
    /\ UNCHANGED <<job_status, pc, args, loop, frame, knowledge, queue, env, kickoff_calls, resp>>
process_message_write(outcome) ==
    /\ wpc = "w41"
    /\ LET msg == CHOOSE m \in wmsg : TRUE
       IN  CASE outcome = "written" ->
                   /\ fs' = process_message(msg)
                   /\ written' = [k \in DOMAIN written \cup {msg.job_id} |->
                                      IF k = msg.job_id THEN results ELSE written[k]]
                   /\ wpc' = "w69"
             [] outcome = "write_raises" ->
                   /\ fs' = Makedirs(RunDir(msg.job_id))
                   /\ written' = written
                   /\ wpc' = "crashed"
             [] outcome = "mkdir_raises" ->
                   /\ UNCHANGED <<fs, written>>
                   /\ wpc' = "crashed"
    /\ UNCHANGED <<wmsg, results, acked, s3Vars, acctVars>>
    /\ UNCHANGED <<job_status, pc, args, loop, frame, knowledge, queue, env, kickoff_calls, resp>>

\* worker.py:69: receiver.complete_message(msg) removes the message from
\* the queue, or raises (the lock was lost) and ends main.
complete_message(ok) ==
    /\ wpc = "w69"
    /\ IF ok
       THEN /\ queue' = queue \ wmsg
            /\ acked' = acked \cup wmsg
            /\ wmsg' = None
            /\ results' = {}
            /\ wpc' = "receive"
       ELSE /\ wpc' = "crashed"
            /\ UNCHANGED <<queue, acked, wmsg, results>>
    /\ UNCHANGED <<written, s3Vars, acctVars>>
    /\ UNCHANGED <<job_status, pc, args, loop, frame, fs, knowledge, env, kickoff_calls, resp>>

\* The Queue Bridge: POST /v1/jobs on the server, the worker on the other
\* side of the queue.
WorkerInit == Init /\ env = [s3_bucket |-> FALSE, service_bus |-> TRUE]

WorkerNext ==
    \/ \E payload \in Payloads : create_job_endpoint(payload)
    \/ \E j \in JobIds : publish_ok(j)
    \/ \E j \in JobIds, e \in ErrMsgs : publish_raises(j, e)
    \/ \E j \in JobIds : publish_failed_status(j)
    \/ \E j \in JobIds : publish_failed_error(j)
    \/ \E msg \in queue : receive_messages(msg)
    \/ \E client_ok \in BOOLEAN, done \in 0..3 : process_message_scoring(client_ok, done)
    \/ \E outcome \in {"written", "write_raises", "mkdir_raises"} : process_message_write(outcome)
    \/ \E ok \in BOOLEAN : complete_message(ok)

WorkerSpec == WorkerInit /\ [][WorkerNext]_vars


\* api.py:49 and the empty directories: the server just started, in the
\* environment e, before any request.
ApiStart(e) ==
    /\ job_status = [k \in {} |-> 0]
    /\ pc = [j \in JobIds |-> "unused"]
    /\ args = [j \in JobIds |-> None]
    /\ loop = 0
    /\ frame = NoFrame
    /\ fs = [d \in {} |-> {}]
    /\ knowledge = [h \in FileIds |-> "absent"]
    /\ queue = {}
    /\ env = e
    /\ kickoff_calls = [j \in JobIds |-> 0]
    /\ resp = NoResp

\* ------------------------------------------ the Artifact Publisher (s3_utils.py)
\* s3_utils.py:28-34: what head_bucket answers.  A bucket held in another
\* region answers 301; `fault` is any other failure (403, no connection),
\* which ensure_bucket_exists lets through.
HeadBucket(fault) ==
    IF fault THEN "error"
    ELSE IF bucket = "present" THEN "ok"
    ELSE IF bucket = "absent" THEN "404"
    ELSE "301"

\* s3_utils.py:27-34: whether ensure_bucket_exists goes on to create.
GoesOnToCreateMutAlways(head) == head # "error"
GoesOnToCreate(head) == head \in {"404", "301"}

\* s3_utils.py:41-44: create_bucket succeeds only for a name nobody holds.
CreateSucceeds(create_ok) == bucket = "absent" /\ create_ok

\* s3_utils.py:47-83: upload_file_to_s3(local_path, bucket, key_prefix) for
\* the file f of job j.  local_exists is os.path.exists(local_path).
upload_file_to_s3(j, f, local_exists, fault, create_ok, upload_ok) ==
    LET head == HeadBucket(fault)
        ensure == IF ~auto_create THEN <<>>
                  ELSE IF GoesOnToCreate(head) THEN <<"head_bucket", "create_bucket">>
                  ELSE <<"head_bucket">>
        \* ensure_bucket_exists raised: head failed, or create failed
        ensure_raises == /\ auto_create
                         /\ \/ head = "error"
                            \/ GoesOnToCreate(head) /\ ~CreateSucceeds(create_ok)
        bucket_after == IF auto_create /\ GoesOnToCreate(head) /\ CreateSucceeds(create_ok)
                        THEN "present" ELSE bucket
        stored == bucket_after = "present" /\ upload_ok
    IN  /\ UNCHANGED <<auto_create, workerVars, acctVars>>
        /\ UNCHANGED <<job_status, pc, args, loop, frame, fs, knowledge, queue, env, kickoff_calls, resp>>
        /\ IF ~local_exists
           THEN \* s3_utils.py:59-60
                /\ s3_calls' = <<>>
                /\ s3_result' = "FileNotFoundError"
                /\ UNCHANGED <<bucket, objects>>
           ELSE IF ensure_raises
           THEN /\ s3_calls' = ensure
                /\ s3_result' = IF head = "error" THEN "ClientError" ELSE "RuntimeError"
                /\ UNCHANGED <<bucket, objects>>
           ELSE /\ s3_calls' = ensure \o <<"upload_file">>
                /\ bucket' = bucket_after
                /\ objects' = IF stored THEN objects \cup {<<j, f>>} ELSE objects
                /\ s3_result' = IF stored THEN "url" ELSE "RuntimeError"

S3Init ==
    /\ \E flag \in BOOLEAN, b \in {"absent", "present", "elsewhere"} : S3Start(flag, b)
    /\ ApiStart([s3_bucket |-> TRUE, service_bus |-> FALSE])
    /\ WorkerStart
    /\ Account_init(0)

S3Next ==
    \E j \in JobIds, f \in ExtFiles, local_exists \in BOOLEAN, fault \in BOOLEAN,
       create_ok \in BOOLEAN, upload_ok \in BOOLEAN :
        upload_file_to_s3(j, f, local_exists, fault, create_ok, upload_ok)

S3Spec == S3Init /\ [][S3Next]_vars


\* ------------------------------------------------ Account (accounts.py)
\* Money is counted in thousandths of a dollar.
\* accounts.py:116-128
get_share_price(symbol) ==
    CASE symbol = "AAPL" -> 150000
      [] symbol = "TSLA" -> 800000
      [] symbol = "GOOGL" -> 2800000
      [] OTHER -> 0

\* Arguments the calls are tried with: amounts that are negative, zero,
\* not a whole number of cents, and the price of a share; a symbol without
\* price; quantities that are negative and zero.
Amounts == {-150000, 0, 1004, 150000}
Symbols == {"AAPL", "TSLA", "XYZ"}
Quantities == {-1, 0, 1}
InitialDeposits == {0, 150000}

\* f"{x:.2f}": the number of cents nearest to x (no amount used here lies
\* half-way between two), and float() of that text, in thousandths again.
Fmt2(x) == IF x >= 0 THEN (x + 5) \div 10 ELSE -((-x + 5) \div 10)
ParseFloat(cents) == cents * 10

\* The f-strings appended to self.transactions, as their parts.
Tx(op, cents, quantity, symbol) ==
    [op |-> op, amount |-> cents, quantity |-> quantity, symbol |-> symbol]

\* self.transactions.append(entry)
LogMutOverwrite(entry) == <<entry>>
Log(entry) == Append(transactions, entry)

Raises(msg) ==
    /\ raised' = Some(msg)
    /\ UNCHANGED <<balance, portfolio, transactions>>

\* accounts.py:14-23
deposit(amount) ==
    /\ Len(transactions) < MaxTx
    /\ IF amount <= 0
       THEN Raises("Deposit amount must be positive.")
       ELSE /\ balance' = balance + amount
            /\ transactions' = Log(Tx("Deposited", Fmt2(amount), 0, ""))
            /\ raised' = None
            /\ UNCHANGED portfolio
    /\ UNCHANGED <<initial_deposit, workerVars, s3Vars>>
    /\ UNCHANGED <<job_status, pc, args, loop, frame, fs, knowledge, queue, env, kickoff_calls, resp>>

\* accounts.py:25-36
withdraw(amount) ==
    /\ Len(transactions) < MaxTx
    /\ IF amount <= 0
       THEN Raises("Withdrawal amount must be positive.")
       ELSE IF balance - amount < 0
       THEN Raises("Insufficient funds for withdrawal.")
       ELSE /\ balance' = balance - amount
            /\ transactions' = Log(Tx("Withdrew", Fmt2(amount), 0, ""))
            /\ raised' = None
            /\ UNCHANGED portfolio
    /\ UNCHANGED <<initial_deposit, workerVars, s3Vars>>
    /\ UNCHANGED <<job_status, pc, args, loop, frame, fs, knowledge, queue, env, kickoff_calls, resp>>

\* accounts.py:38-51
buy_shares(symbol, quantity) ==
    /\ Len(transactions) < MaxTx
    /\ LET price_per_share == get_share_price(symbol)
           total_cost == price_per_share * quantity
       IN  IF total_cost > balance
           THEN Raises("Insufficient funds to buy shares.")
           ELSE /\ balance' = balance - total_cost
                /\ portfolio' = [y \in DOMAIN portfolio \cup {symbol} |->
                                     IF y = symbol
                                     THEN (IF y \in DOMAIN portfolio THEN portfolio[y] ELSE 0)
                                              + quantity
                                     ELSE portfolio[y]]
                /\ transactions' = Log(Tx("Bought", Fmt2(price_per_share), quantity, symbol))
                /\ raised' = None
    /\ UNCHANGED <<initial_deposit, workerVars, s3Vars>>
    /\ UNCHANGED <<job_status, pc, args, loop, frame, fs, knowledge, queue, env, kickoff_calls, resp>>

\* accounts.py:53-68
sell_shares(symbol, quantity) ==
    /\ Len(transactions) < MaxTx
    /\ IF symbol \notin DOMAIN portfolio \/ portfolio[symbol] < quantity
       THEN Raises("Not enough shares to sell.")
       ELSE LET price_per_share == get_share_price(symbol)
                total_revenue == price_per_share * quantity
                left == portfolio[symbol] - quantity
            IN  /\ balance' = balance + total_revenue
                /\ portfolio' = [y \in (IF left = 0 THEN DOMAIN portfolio \ {symbol}
                                                   ELSE DOMAIN portfolio) |->
                                     IF y = symbol THEN left ELSE portfolio[y]]
                /\ transactions' = Log(Tx("Sold", Fmt2(price_per_share), quantity, symbol))
                /\ raised' = None
    /\ UNCHANGED <<initial_deposit, workerVars, s3Vars>>
    /\ UNCHANGED <<job_status, pc, args, loop, frame, fs, knowledge, queue, env, kickoff_calls, resp>>

RECURSIVE SumOver(_, _)
SumOver(f, S) ==
    IF S = {} THEN 0
    ELSE LET x == CHOOSE y \in S : TRUE IN f[x] + SumOver(f, S \ {x})

\* accounts.py:70-80
get_total_value ==
    balance + SumOver([y \in DOMAIN portfolio |-> get_share_price(y) * portfolio[y]],
                      DOMAIN portfolio)

\* accounts.py:82-89: the sum of the amounts printed in the entries that
\* contain "Deposited" (no symbol used here contains that word), taken from
\* the total value.
get_profit_or_loss ==
    LET deposited == {i \in DOMAIN transactions : transactions[i].op = "Deposited"}
    IN  get_total_value
            - SumOver([i \in deposited |-> ParseFloat(transactions[i].amount)], deposited)

AccountInit ==
    /\ ApiStart([s3_bucket |-> FALSE, service_bus |-> FALSE])
    /\ WorkerStart
    /\ S3Start(FALSE, "present")
    /\ \E deposit0 \in InitialDeposits : Account_init(deposit0)

AccountNext ==
    \/ \E amount \in Amounts : deposit(amount)
    \/ \E amount \in Amounts : withdraw(amount)
    \/ \E symbol \in Symbols, quantity \in Quantities : buy_shares(symbol, quantity)
    \/ \E symbol \in Symbols, quantity \in Quantities : sell_shares(symbol, quantity)

AccountSpec == AccountInit /\ [][AccountNext]_vars


\* ------------------------------------------------------------------ claims
Terminal == {"completed", "failed"}
Kept(j) == j \in DOMAIN job_status /\ j \in DOMAIN job_status'

\* C1: once a job's stored status is completed or failed, no later step
\* changes it for as long as the record exists.
C1_TerminalStatusStable ==
    [][\A j \in JobIds :
          (Kept(j) /\ job_status[j].status \in Terminal)
              => job_status'[j].status = job_status[j].status]_vars

\* C2: every change of a job's stored status is one of queued->running,
\* running->completed, running->failed.
C2_OnlyLifecycleTransitions ==
    [][\A j \in JobIds :
          (Kept(j) /\ job_status'[j].status # job_status[j].status)
              => <<job_status[j].status, job_status'[j].status>> \in
                     {<<"queued", "running">>, <<"running", "completed">>,
                      <<"running", "failed">>}]_vars

Coherent(rec) ==
    /\ (rec.result # None) <=> (rec.status = "completed")
    /\ (rec.error # None) <=> (rec.status = "failed")

\* C3 as stated: in every state of the store, every record has a result iff
\* its status is completed and an error iff its status is failed.
C3_ResultErrorIffTerminal == \A j \in DOMAIN job_status : Coherent(job_status[j])

\* C3 amended: the same, in every state in which no coroutine is inside its
\* section without suspension point (the states a request handler can see).
C3_ResultErrorIffTerminalAtRest ==
    loop = 0 => \A j \in DOMAIN job_status : Coherent(job_status[j])

C3_Witness ==
    /\ loop = 0
    /\ \E j \in DOMAIN job_status :
           job_status[j].status = "completed" /\ job_status[j].result # None
    /\ \E j \in DOMAIN job_status :
           job_status[j].status = "failed" /\ job_status[j].error # None

\* C4: no response of GET /job/{id} or GET /jobs shows status completed
\* without a result or status failed without an error.
C4_ReadersSeeWholeRecords ==
    resp.op \in {"get", "list"} =>
        \A k \in DOMAIN resp.body :
            /\ resp.body[k].status = "completed" => resp.body[k].result # None
            /\ resp.body[k].status = "failed" => resp.body[k].error # None

\* A status query answered after a runner has gone through its three final
\* assignments, and one answered while another job's runner is still pending.
C4_Witness ==
    /\ resp.op = "get" /\ resp.code = 200
    /\ resp.body[resp.id].status = "completed"
    /\ \E k \in JobIds : pc[k] = "scheduled"

\* C5: a record that appears in the store appears with status queued and
\* with neither result nor error.
C5_CreatedQueued ==
    [][\A j \in JobIds :
          (j \notin DOMAIN job_status /\ j \in DOMAIN job_status')
              => /\ job_status'[j].status = "queued"
                 /\ job_status'[j].result = None
                 /\ job_status'[j].error = None]_vars

\* One record just stored by POST /optimize, one just stored by POST /v1/jobs.
C5_Witness ==
    \E j, k \in DOMAIN job_status :
        /\ pc[j] = "scheduled" /\ job_status[j] = NewRecord("Starting optimization...")
        /\ pc[k] = "v216" /\ job_status[k] = NewRecord("Queued")

\* C6 as stated: a runner that ended in its except block leaves status
\* failed, a non-empty error, no result and the failure in progress.
C6_FailureRecordedNonEmpty ==
    \A j \in DOMAIN job_status :
        pc[j] = "handled" =>
            /\ job_status[j].status = "failed"
            /\ job_status[j].error \notin {None, Some("")}
            /\ job_status[j].result = None
            /\ \E e \in job_status[j].error : job_status[j].progress = FailedProgress(e)

\* C6 amended: the error is str(e) of the exception caught, which is the
\* empty string for an exception without message.
C6_FailureRecorded ==
    \A j \in DOMAIN job_status :
        /\ pc[j] = "x360" => job_status[j].error = frame.exc /\ frame.exc # None
        /\ pc[j] = "handled" =>
               /\ job_status[j].status = "failed"
               /\ job_status[j].error # None
               /\ job_status[j].result = None
               /\ \E e \in job_status[j].error : job_status[j].progress = FailedProgress(e)

C6_Witness ==
    \E j \in DOMAIN job_status :
        /\ pc[j] = "handled"
        /\ job_status[j].status = "failed"
        /\ job_status[j].error = Some("")

\* C7: no error leaves run_optimization_task.
C7_NoErrorEscapes == \A j \in JobIds : pc[j] # "escaped"

\* C8: a failed upload leaves the runner on its way to completed, and the
\* result stored lists every file of the run directory and, as uploaded,
\* exactly the files the bucket received.
C8_UploadFailureNotFatal ==
    [][\A j \in JobIds :
          /\ pc[j] = "r333"
                 => /\ pc'[j] \in {"r333", "r349"}
                    /\ frame'.exc = None
                    /\ frame'.output_files = frame.output_files
                    /\ job_status'[j].status = "running"
          /\ (pc[j] = "r351" /\ pc'[j] = "returned")
                 => /\ job_status'[j].status = "completed"
                    /\ \E p \in job_status'[j].result :
                           /\ DOMAIN p.output_files = Collected(j)
                           /\ DOMAIN p.s3_uploads = frame.stored]_vars

\* Two files collected, one of them uploaded, the job completed.
C8_Witness ==
    \E j \in DOMAIN job_status :
        /\ job_status[j].status = "completed"
        /\ \E p \in job_status[j].result :
               /\ Cardinality(DOMAIN p.output_files) = 2
               /\ Cardinality(DOMAIN p.s3_uploads) = 1

\* C9: a job created without resume whose optimization call returned ends
\* completed with the crew's files in result.output_files.
C9_ReferenceOnlyJobHasOutputFiles ==
    [][\A j \in JobIds :
          (pc[j] = "r351" /\ pc'[j] = "returned" /\ args[j] = None)
              => /\ job_status'[j].status = "completed"
                 /\ \E p \in job_status'[j].result : DOMAIN p.output_files # {}]_vars

\* C10: DELETE /job/{id} answers 404 and changes nothing for an id that is
\* not in the store; otherwise it removes that record and no other, and
\* GET /jobs lists exactly the records of the store.
C10_DeleteRemovesExactlyOne ==
    [][/\ \A j \in JobIds :
             (resp'.op = "delete" /\ resp'.id = j) =>
                 IF j \notin DOMAIN job_status
                 THEN resp'.code = 404 /\ job_status' = job_status
                 ELSE /\ resp'.code # 404
                      /\ DOMAIN job_status' = DOMAIN job_status \ {j}
                      /\ \A k \in DOMAIN job_status' : job_status'[k] = job_status[k]
       /\ resp'.op = "list" => resp'.body = job_status']_vars

\* A delete that succeeded while another record stays in the store.
C10_Witness ==
    /\ resp.op = "delete" /\ resp.code = 200
    /\ resp.id \notin DOMAIN job_status
    /\ DOMAIN job_status # {}

\* C11: GET /download/{id}/{filename} answers 404 for an id that is not in
\* the store; 400 for a stored job whose status is not completed, whether
\* or not the file exists; and for a completed job 404 if the file is not
\* in its run directory and 200 (the file) if it is.
C11_DownloadCheckOrder ==
    resp.op = "download" =>
        LET j == resp.id
            f == resp.file
        IN  /\ ~HasJob(j) => resp.code = 404
            /\ (HasJob(j) /\ job_status[j].status # "completed") => resp.code = 400
            /\ (HasJob(j) /\ job_status[j].status = "completed" /\ ~FileExists(j, f))
                   => resp.code = 404
            /\ (HasJob(j) /\ job_status[j].status = "completed" /\ FileExists(j, f))
                   => resp.code = 200

\* A download refused as not ready although the file is on disk.
C11_Witness ==
    /\ resp.op = "download" /\ resp.code = 400
    /\ FileExists(resp.id, resp.file)

\* C12: when POST /optimize produces its response, the response says
\* queued, the stored status of the new job is queued, its runner has not
\* taken its first step and the optimization call has not been invoked.
C12_ResponseBeforeRunner ==
    (resp.op = "optimize" /\ resp.code = 200) =>
        /\ resp.status = "queued"
        /\ HasJob(resp.id)
        /\ job_status[resp.id].status = "queued"
        /\ pc[resp.id] = "scheduled"
        /\ kickoff_calls[resp.id] = 0

\* The response of a second POST /optimize, produced after the runner of
\* the first job has finished.
C12_Witness ==
    /\ resp.op = "optimize" /\ resp.code = 200
    /\ \E k \in JobIds : k # resp.id /\ pc[k] = "returned"

\* C13: a create request with neither a job reference nor a resume is
\* answered with a client error and stores no record; a request with only
\* a job reference or only a resume is accepted.  For POST /optimize the
\* job reference is job_url and the resume is file_id, for POST /v1/jobs
\* they are job_description and resume_text.
C13_CreateValidates ==
    [][/\ start_optimization(FALSE, None)
             => (job_status' = job_status /\ resp'.code \in 400..499)
       /\ create_job_endpoint([resume_text |-> FALSE, job_description |-> FALSE])
             => (job_status' = job_status /\ resp'.code \in 400..499)
       /\ \A h \in FileIds :
             (knowledge[h] = "resume" /\ start_optimization(FALSE, Some(h)))
                 => resp'.code \in 200..299
       /\ (start_optimization(TRUE, None) /\ resp'.op = "optimize")
             => resp'.code \in 200..299
       /\ \A payload \in Payloads :
             ((payload.resume_text # payload.job_description)
                  /\ create_job_endpoint(payload) /\ resp'.op = "v1jobs")
                 => resp'.code \in 200..299]_vars

\* C14: a record is created only under an id that was never issued before
\* (also after a delete of an earlier record), and a step of the coroutine
\* of job j leaves the record of every other job as it is, present or not.
C14_DistinctIdsIsolatedRunners ==
    [][\A j \in JobIds :
          /\ (j \notin DOMAIN job_status /\ j \in DOMAIN job_status') => pc[j] = "unused"
          /\ (pc'[j] # pc[j] /\ pc'[j] \in {"scheduled", "unscheduled", "v216"})
                 => (pc[j] = "unused" /\ j \notin DOMAIN job_status)
          /\ pc'[j] # pc[j] =>
                 \A k \in JobIds \ {j} :
                     /\ (k \in DOMAIN job_status) <=> (k \in DOMAIN job_status')
                     /\ k \in DOMAIN job_status => job_status'[k] = job_status[k]]_vars

\* Two jobs whose runners have ended, one completed and one failed.
C14_Witness ==
    \E j, k \in DOMAIN job_status :
        /\ pc[j] = "returned" /\ job_status[j].status = "completed"
        /\ pc[k] = "handled" /\ job_status[k].status = "failed"

\* Positions of run_optimization_task from which it takes a step.
RunnerPcs == {"scheduled", "r298", "r304", "r308", "r311", "r317", "r320", "r333",
              "r349", "r350", "r351", "x358", "x359", "x360"}

\* C15: once a record is in the store, only a step of the runner of its
\* job changes it; no request handler does, POST /v1/jobs included.
C15_RunnerOnlyWriter ==
    [][\A j \in JobIds :
          (Kept(j) /\ job_status'[j] # job_status[j]) => pc[j] \in RunnerPcs]_vars

\* C16: under fair scheduling every job whose stored status is running
\* eventually has status completed or failed, or its record is deleted.
C16_RunningReachesTerminal ==
    \A j \in JobIds :
        (HasJob(j) /\ job_status[j].status = "running")
            ~> (~HasJob(j) \/ job_status[j].status \in Terminal)

\* A job went through running and its runner has ended.
C16_Witness ==
    \E j \in DOMAIN job_status :
        /\ pc[j] \in {"returned", "handled"}
        /\ kickoff_calls[j] = 1
        /\ job_status[j].status \in Terminal

\* C17: the first step of a runner whose record was deleted after it was
\* scheduled goes on with the run: it neither raises nor ends the task.
C17_DeleteDoesNotStopRunner ==
    [][\A j \in JobIds :
          (pc[j] = "scheduled" /\ ~HasJob(j) /\ pc'[j] # pc[j])
              => pc'[j] \notin {"x358", "escaped"}]_vars

Ended == {"returned", "handled", "escaped"}

\* C18: the optimization call is invoked at most once for each job id, a
\* runner that has ended takes no further step, and a runner that ended in
\* its except block leaves status failed.
C18_NoRetry ==
    [][\A j \in JobIds :
          /\ kickoff_calls'[j] <= 1
          /\ pc[j] \in Ended => (pc'[j] = pc[j] /\ kickoff_calls'[j] = kickoff_calls[j])
          /\ (pc'[j] = "handled" /\ j \in DOMAIN job_status')
                 => job_status'[j].status = "failed"]_vars

\* A job failed after its one optimization call raised: the call was made
\* and no task has written a file.
C18_Witness ==
    \E j \in DOMAIN job_status :
        /\ pc[j] = "handled" /\ kickoff_calls[j] = 1
        /\ job_status[j].status = "failed"
        /\ \A d \in DOMAIN fs : fs[d] = {}

\* Positions of create_job_endpoint and of a job it has created.
V1Pcs == {"v216", "v221", "v222", "tracked"}

\* C19: a job created by POST /v1/jobs never has status running or
\* completed, no runner is scheduled and no optimization call is made for
\* it, nothing is published for it when the queue is not configured, and no
\* download for it succeeds.
C19_V1JobNeverProcessed ==
    \A j \in JobIds :
        pc[j] \in V1Pcs =>
            /\ HasJob(j) => job_status[j].status \in {"queued", "failed"}
            /\ kickoff_calls[j] = 0 /\ args[j] = None
            /\ ~env.service_bus => queue = {}
            /\ (resp.op = "download" /\ resp.id = j) => resp.code # 200

\* The worker has written its results file for the job and a download of
\* that file is refused.
C19_Witness ==
    /\ resp.op = "download" /\ resp.file = bento_results /\ resp.code = 400
    /\ pc[resp.id] = "tracked"
    /\ FileExists(resp.id, bento_results)

\* C20: POST /upload-resume with a content type that is not allowed is
\* answered with a client error and writes nothing under knowledge.
C20_BadTypeIsClientError ==
    [][\A h \in FileIds, resume_ext \in BOOLEAN :
          upload_resume(h, FALSE, resume_ext)
              => (resp'.code \in 400..499 /\ knowledge' = knowledge)]_vars

\* C21: DELETE /job/{id} for a job that is in the store removes the record
\* and answers 200, whether the run directory is absent, is removed or
\* cannot be removed.
C21_DeleteBestEffort ==
    [][(resp'.op = "delete" /\ resp'.id \in DOMAIN job_status)
          => (resp'.code = 200 /\ resp'.id \notin DOMAIN job_status')]_vars

\* C24: a job for which POST /optimize scheduled no runner has no record
\* in the store, and an error response of POST /optimize leaves no record
\* under the id it generated.
C24_NoRecordWithoutRunner ==
    /\ \A j \in DOMAIN job_status : pc[j] # "unscheduled"
    /\ (resp.op = "optimize" /\ resp.code >= 400 /\ resp.id \in JobIds) => ~HasJob(resp.id)

\* C25: the status in the response of POST /optimize and of POST /v1/jobs
\* is the status stored for that job id when the handler returns.
C25_ResponseStatusIsStored ==
    (resp.op \in {"optimize", "v1jobs"} /\ resp.code \in 200..299)
        => (HasJob(resp.id) /\ resp.status = job_status[resp.id].status)

\* C26: an id that was issued and is not in the store is never in the
\* store again, whatever its runner does later; GET /job/{id} answers 404
\* for it and GET /jobs does not list it.
C26_DeletedStaysDeleted ==
    [][\A j \in JobIds :
          (pc[j] # "unused" /\ ~HasJob(j)) =>
              /\ j \notin DOMAIN job_status'
              /\ (resp'.op = "get" /\ resp'.id = j) => resp'.code = 404
              /\ resp'.op = "list" => j \notin DOMAIN resp'.body]_vars

\* A status query for a deleted job, answered after the runner that was
\* pending at the time of the delete has run.
C26_Witness ==
    /\ resp.op = "get" /\ resp.code = 404
    /\ pc[resp.id] = "escaped"
    /\ ~HasJob(resp.id)

\* C27: a message is completed only after its results file was written;
\* a worker that processing has ended with an exception has not completed
\* its message, which is still in the queue; a failed call to the scoring
\* service does not end processing: the file is written next, with the
\* entry "error", and the message is then completed.
C27_CompleteAfterWrite ==
    [][/\ \A m \in acked' :
             /\ m.job_id \in DOMAIN written'
             /\ RunDir(m.job_id) \in DOMAIN fs'
             /\ bento_results \in fs'[RunDir(m.job_id)]
       /\ wpc' = "crashed" => (wmsg' # None /\ wmsg' \subseteq queue' /\ wmsg' \cap acked' = {})
       /\ \A done \in 0..3 :
             (process_message_scoring(FALSE, done)
                  \/ (process_message_scoring(TRUE, done)
                          /\ done < Len(Calls(CHOOSE m \in wmsg : TRUE))))
                 => (wpc' = "w41" /\ "error" \in results')
       /\ process_message_write("written")
             => /\ wpc' = "w69"
                /\ \A m \in wmsg : /\ m.job_id \in DOMAIN written'
                                    /\ written'[m.job_id] = results
       /\ complete_message(TRUE) => (wmsg \subseteq acked' /\ wmsg \cap queue' = {})]_vars

\* A completed message whose results file holds the error of a failed
\* call next to the answers of the calls before it.
C27_Witness ==
    \E m \in acked :
        /\ m \notin queue
        /\ written[m.job_id] = {"parsed", "error"}

\* C22 as stated: upload_file_to_s3 calls create_bucket only with the flag
\* set and for a bucket that does not exist, and with the source file
\* missing it fails before any call to S3.
C22_CreateOnlyIfFlagAndAbsent ==
    [][/\ (\E i \in DOMAIN s3_calls' : s3_calls'[i] = "create_bucket")
             => (auto_create /\ bucket = "absent")
       /\ s3_result' = "FileNotFoundError"
             => (s3_calls' = <<>> /\ bucket' = bucket /\ objects' = objects)]_vars

\* C22 amended: create_bucket is called only with the flag set and after
\* head_bucket answered 404 or 301, that is for a bucket that is absent or
\* held in another region, never for one head_bucket found; a bucket comes
\* to exist only with the flag set and where there was none; with the
\* source file missing it fails before any call to S3.
C22_CreateOnlyIfFlagAndNotFound ==
    [][/\ (\E i \in DOMAIN s3_calls' : s3_calls'[i] = "create_bucket")
             => /\ auto_create
                /\ bucket \in {"absent", "elsewhere"}
                /\ s3_calls'[1] = "head_bucket"
       /\ bucket' # bucket => (auto_create /\ bucket = "absent" /\ bucket' = "present")
       /\ s3_result' = "FileNotFoundError"
             => (s3_calls' = <<>> /\ bucket' = bucket /\ objects' = objects)]_vars

\* With the flag set, an upload found no bucket, created it and stored
\* the file.
C22_Witness ==
    /\ auto_create
    /\ s3_calls = <<"head_bucket", "create_bucket", "upload_file">>
    /\ bucket = "present" /\ s3_result = "url" /\ objects # {}

\* C23: get_profit_or_loss is the account's total value minus the initial
\* deposit given to the constructor; for a new account it is 0.
C23_ProfitFromInitialDeposit ==
    /\ get_profit_or_loss = get_total_value - initial_deposit
    /\ transactions = <<>> => get_profit_or_loss = 0

\* C28: the balance of an account opened with a non-negative deposit is
\* never negative.
C28_BalanceNeverNegative == balance >= 0

\* C29: every symbol in the portfolio has a strictly positive quantity.
C29_HoldingsPositive == \A y \in DOMAIN portfolio : portfolio[y] > 0

\* C30: a call that raises leaves balance, portfolio and transactions as
\* they were; a call that returns appends exactly one entry to transactions
\* and leaves the earlier entries as they were.
C30_RaiseChangesNothing ==
    [][/\ raised' # None
             => (balance' = balance /\ portfolio' = portfolio
                    /\ transactions' = transactions)
       /\ raised' = None
             => /\ Len(transactions') = Len(transactions) + 1
                /\ SubSeq(transactions', 1, Len(transactions)) = transactions]_vars

\* A withdrawal refused for lack of funds after two calls that returned.
C30_Witness ==
    /\ raised = Some("Insufficient funds for withdrawal.")
    /\ Len(transactions) = 2

====
